---- MODULE Spec2Model ----
(***************************************************************************)
(* A model of src/endec.rs: decode_gif, decode_png and encode_png, the     *)
(* adapters that turn a GIF or PNG file into an Image {width, height,      *)
(* bytes} and an Image back into a PNG file.                               *)
(* encode_gif (lines 46-58) is left out: what it writes is decided by the  *)
(* gif crate's colour quantisation, and no property below reads it.        *)
(*                                                                         *)
(* The external gif and png crates are the environment.  A file is the     *)
(* record of what the crate's reader reports for it (dimensions, colour    *)
(* type, bit depth, palette, scanline data); the conversion code of        *)
(* endec.rs itself is modelled statement by statement, one loop iteration  *)
(* per step, with every slice index checked the way Rust checks it.        *)
(*                                                                         *)
(* Option<T> is modelled as a sequence: <<>> is None, <<x>> is Some(x).    *)
(* Vec<u8> is a sequence; At(v, k) is the 0-based read v[k].               *)
(***************************************************************************)
EXTENDS Integers, Sequences, FiniteSets

VARIABLES
    file,        \* Option: the file behind the handle / at the path
    image,       \* Option: the Image the caller holds for encoding
    op,          \* the function being run: "none", "decode_png", ...
    pc,          \* position inside that function
    info,        \* decode_png: Option of reader.info() (line 67)
    bytes,       \* decode_*: the local `bytes`
    rgba_bytes,  \* decode_png: the local `rgba_bytes`
    i,           \* decode_png: the loop variable
    result,      \* the value the function returned
    rawReads,    \* positions of `bytes` indexed by the last loop iteration
    palReads,    \* positions of `palette` indexed by the last loop iteration
    encoded      \* Option: the Image encode_png last wrote completely to `file`

vars == <<file, image, op, pc, info, bytes, rgba_bytes, i, result,
          rawReads, palReads, encoded>>

----------------------------------------------------------------------------
(* Bounds of the model *)

MaxWidth == 2
MaxHeight == 2
MaxPaletteLen == 7
TileLen == 3

\* Byte values the scanline data is drawn from: small palette indices and
\* the largest byte.
ByteVals == {0, 1, 255}

----------------------------------------------------------------------------
(* Rust numerics *)

\* Widths and heights stay far below 2^16 here (MaxWidth, MaxHeight), so
\* the u32 product info.width * info.height and the casts `as usize`,
\* `as i32`, `as u32` of lines 73, 137-138 and 149 keep every value they
\* are applied to; the model writes the values themselves.

\* 0-based indexing of a Vec / slice.
At(v, k) == v[k + 1]

InBounds(v, k) == k >= 0 /\ k < Len(v)

None == <<>>
Some(x) == <<x>>
Unwrap(o) == o[1]

Zeros(n) == [k \in 1..n |-> 0]

----------------------------------------------------------------------------
(* The environment: files as the codec libraries report them *)

ColorTypes == {"Rgb", "Grayscale", "GrayscaleAlpha", "Indexed", "Rgba"}

\* Samples per pixel of a PNG colour type.
Samples(ct) ==
    CASE ct = "Rgb" -> 3
      [] ct = "Grayscale" -> 1
      [] ct = "GrayscaleAlpha" -> 2
      [] ct = "Indexed" -> 1
      [] ct = "Rgba" -> 4

\* Bit depths the PNG format allows for a colour type.
Depths(ct) ==
    CASE ct = "Rgb" -> {8, 16}
      [] ct = "Grayscale" -> {1, 2, 4, 8, 16}
      [] ct = "GrayscaleAlpha" -> {8, 16}
      [] ct = "Indexed" -> {1, 2, 4, 8}
      [] ct = "Rgba" -> {8, 16}

\* ceil(a / b)
CeilDiv(a, b) == (a + b - 1) \div b

\* reader.output_buffer_size(): the decoder applies no transformation, so a
\* row holds ceil(width * samples * depth / 8) bytes.
OutputBufferSize(f) ==
    CeilDiv(f.width * Samples(f.color_type) * f.bit_depth, 8) * f.height

\* gif reader.buffer_size() with ColorOutput::RGBA: the current frame's
\* width * 4 * height.
GifBufferSize(f) == f.frame_width * 4 * f.frame_height

Tiles == [1..TileLen -> ByteVals]

\* n bytes of content: the tile repeated, each repetition rotated by one
\* more position, so that neighbouring pixels differ.
Fill(tile, n) ==
    [k \in 1..n |-> tile[(((k - 1) + ((k - 1) \div TileLen)) % TileLen) + 1]]

\* Palettes: any byte length (also not a multiple of 3), distinct entries.
Palettes == {[k \in 1..n |-> 10 + k] : n \in 0..MaxPaletteLen}

PngFile(w, h, ct, d, pal, stage, tile) ==
    LET f == [format |-> "png", width |-> w, height |-> h, color_type |-> ct,
              bit_depth |-> d, palette |-> pal, stage |-> stage,
              has_frame |-> TRUE, frame_width |-> w, frame_height |-> h,
              data |-> <<>>]
    IN  [f EXCEPT !.data = Fill(tile, OutputBufferSize(f))]

GifFile(w, h, hasFrame, fw, fh, tile) ==
    LET f == [format |-> "gif", width |-> w, height |-> h, color_type |-> "Rgba",
              bit_depth |-> 8, palette |-> None, stage |-> "full",
              has_frame |-> hasFrame, frame_width |-> fw, frame_height |-> fh,
              data |-> <<>>]
    IN  [f EXCEPT !.data = Fill(tile, GifBufferSize(f))]

PaletteOptions(ct) ==
    IF ct = "Indexed" THEN {None} \cup {Some(p) : p \in Palettes} ELSE {None}

PngFiles ==
    UNION { UNION { { PngFile(w, h, ct, d, pal, "full", t) :
                        w \in 0..MaxWidth, h \in 0..MaxHeight,
                        pal \in PaletteOptions(ct), t \in Tiles }
                    : d \in Depths(ct) }
            : ct \in ColorTypes }

\* Files cut short: nothing readable, or a header with no complete frame.
TruncatedFiles ==
    { PngFile(1, 1, "Rgba", 8, None, stage, [k \in 1..TileLen |-> 0]) :
        stage \in {"empty", "header"} }
    \cup
    { [GifFile(1, 1, TRUE, 1, 1, [k \in 1..TileLen |-> 0]) EXCEPT !.stage = stage] :
        stage \in {"empty", "header"} }

GifFiles ==
    { GifFile(w, h, FALSE, 0, 0, [k \in 1..TileLen |-> 0]) :
        w \in 0..MaxWidth, h \in 0..MaxHeight }
    \cup
    UNION { { GifFile(w, h, TRUE, fw, fh, t) :
                fw \in 1..w, fh \in 1..h, t \in Tiles }
            : w \in 1..MaxWidth, h \in 1..MaxHeight }

\* Images a caller may hand to an encoder: bytes.len() = width * height * 4.
Images ==
    { [width |-> w, height |-> h, bytes |-> Fill(t, w * h * 4)] :
        w \in 0..MaxWidth, h \in 0..MaxHeight, t \in Tiles }

----------------------------------------------------------------------------
(* Return values *)

NoResult == [tag |-> "None", image |-> None, err |-> "", format |-> "", message |-> ""]

Ok(img) == [tag |-> "Ok", image |-> Some(img), err |-> "", format |-> "", message |-> ""]

OkUnit == [tag |-> "Ok", image |-> None, err |-> "", format |-> "", message |-> ""]

\* Err(RasterError::Decode(format, message))
DecodeErr(fmt, msg) ==
    [tag |-> "Err", image |-> None, err |-> "Decode", format |-> fmt, message |-> msg]

\* An error of a library call, converted by `?`.
LibErr(lib) ==
    [tag |-> "Err", image |-> None, err |-> "From", format |-> lib, message |-> ""]

\* An index or slice out of range: the call unwinds and returns nothing.
Panic == [tag |-> "Panic", image |-> None, err |-> "", format |-> "", message |-> ""]

----------------------------------------------------------------------------
(* Initial state: a file on disk to decode, or an Image to encode *)

Init ==
    /\ \/ /\ file \in {Some(f) : f \in PngFiles \cup TruncatedFiles \cup GifFiles}
          /\ image = None
       \/ /\ file = None
          /\ image \in {Some(m) : m \in Images}
    /\ op = "none"
    /\ pc = "idle"
    /\ info = None
    /\ bytes = <<>>
    /\ rgba_bytes = <<>>
    /\ i = 0
    /\ result = NoResult
    /\ rawReads = {}
    /\ palReads = {}
    /\ encoded = None

\* A call starts with fresh locals and nothing returned yet.
Enter(fn, at) ==
    /\ pc \in {"idle", "done"}
    /\ op' = fn
    /\ pc' = at
    /\ info' = None
    /\ bytes' = <<>>
    /\ rgba_bytes' = <<>>
    /\ i' = 0
    /\ result' = NoResult
    /\ rawReads' = {}
    /\ palReads' = {}

\* The call returns r.
Return(r) ==
    /\ pc' = "done"
    /\ result' = r

At_(fn, at) == op = fn /\ pc = at

----------------------------------------------------------------------------
(* decode_png, lines 61-141 *)

\* (info.width * info.height) as usize
PixelCount(inf) == inf.width * inf.height

\* Line 76: the slice &bytes[idx..idx + 3] with idx = k * 3.
RgbReads(k) == {k * 3, k * 3 + 1, k * 3 + 2}

\* A variant of RgbPixel that copies the three bytes in reverse order.
RgbPixelSwapped(b, k) ==
    LET idx == k * 3
    IN  <<At(b, idx + 2), At(b, idx + 1), At(b, idx), 255>>

\* Lines 75-77: the four bytes pushed for pixel k of an Rgb buffer.
RgbPixel(b, k) ==
    LET idx == k * 3
    IN  <<At(b, idx), At(b, idx + 1), At(b, idx + 2), 255>>

\* Line 85: bytes[k].
GrayReads(k) == {k}

\* A variant of GrayPixel that fills only the red channel.
GrayPixelRedOnly(b, k) ==
    LET gray == At(b, k)
    IN  <<gray, 0, 0, 255>>

\* Lines 85-89.
GrayPixel(b, k) ==
    LET gray == At(b, k)
    IN  <<gray, gray, gray, 255>>

\* Lines 98-99: bytes[idx], bytes[idx + 1] with idx = k * 2.
GrayAlphaReads(k) == {k * 2, k * 2 + 1}

\* A variant of GrayAlphaPixel that forces the pixel opaque.
GrayAlphaPixelOpaque(b, k) ==
    LET idx == k * 2
        gray == At(b, idx)
    IN  <<gray, gray, gray, 255>>

\* Lines 97-103.
GrayAlphaPixel(b, k) ==
    LET idx == k * 2
        gray == At(b, idx)
        alpha == At(b, idx + 1)
    IN  <<gray, gray, gray, alpha>>

\* A variant of PaletteOffset that forgets the entry size.
PaletteOffsetUnscaled(b, k) == At(b, k)

\* Line 118: bytes[k] as usize * 3.
PaletteOffset(b, k) == At(b, k) * 3

\* A variant of PaletteHit that checks only the first byte of the entry.
PaletteHitFirstByte(idx, palette) == idx < Len(palette)

\* Line 119: the guard of the palette lookup.
PaletteHit(idx, palette) == idx + 2 < Len(palette)

\* A variant of OutOfRangePixel: transparent black.
OutOfRangePixelTransparent == <<0, 0, 0, 0>>

\* Line 126: the pixel substituted for an out-of-range palette index.
OutOfRangePixel == <<0, 0, 0, 255>>

\* Lines 120-122: the palette positions read when the guard holds.
PaletteReads(idx) == {idx, idx + 1, idx + 2}

\* Lines 118-127.
IndexedPixel(b, palette, k) ==
    LET idx == PaletteOffset(b, k)
    IN  IF PaletteHit(idx, palette)
        THEN <<At(palette, idx), At(palette, idx + 1), At(palette, idx + 2), 255>>
        ELSE OutOfRangePixel

\* One iteration of a conversion loop `for i in 0..count`: the iteration
\* indexes `bytes` at `reads`; an index out of range panics, otherwise
\* `pixel` is pushed.  When i reaches count, `bytes = rgba_bytes`.
LoopStep(reads, pixel) ==
    IF i < PixelCount(Unwrap(info))
    THEN /\ rawReads' = reads
         /\ IF \A k \in reads : InBounds(bytes, k)
            THEN /\ rgba_bytes' = rgba_bytes \o pixel
                 /\ i' = i + 1
                 /\ UNCHANGED <<pc, result>>
            ELSE /\ Return(Panic)
                 /\ UNCHANGED <<rgba_bytes, i>>
         /\ UNCHANGED bytes
    ELSE /\ bytes' = rgba_bytes
         /\ pc' = "return"
         /\ UNCHANGED <<rgba_bytes, i, result, rawReads>>

\* A variant of MissingPaletteErr with the wrong format tag.
MissingPaletteErrGif == DecodeErr("Gif", "Missing palette for indexed image")

\* Lines 111-114.
MissingPaletteErr == DecodeErr("Png", "Missing palette for indexed image")

CallDecodePng ==
    /\ file /= None
    /\ Enter("decode_png", "read_info")
    /\ UNCHANGED <<file, image, encoded>>

\* Lines 62-64: read_info()?, then vec![0; reader.output_buffer_size()].
PngReadInfo ==
    /\ At_("decode_png", "read_info")
    /\ LET f == Unwrap(file)
       IN  IF f.format = "png" /\ f.stage /= "empty"
           THEN /\ bytes' = Zeros(OutputBufferSize(f))
                /\ pc' = "next_frame"
                /\ UNCHANGED result
           ELSE /\ Return(LibErr("png::DecodingError"))
                /\ UNCHANGED bytes
    /\ UNCHANGED <<file, image, op, info, rgba_bytes, i, rawReads, palReads, encoded>>

\* Lines 66-67: next_frame(&mut bytes)?, then reader.info().
PngNextFrame ==
    /\ At_("decode_png", "next_frame")
    /\ LET f == Unwrap(file)
       IN  IF f.stage = "full"
           THEN /\ bytes' = f.data
                /\ info' = Some([width |-> f.width, height |-> f.height,
                                 color_type |-> f.color_type, palette |-> f.palette])
                /\ pc' = "match"
                /\ UNCHANGED result
           ELSE /\ Return(LibErr("png::DecodingError"))
                /\ UNCHANGED <<bytes, info>>
    /\ UNCHANGED <<file, image, op, rgba_bytes, i, rawReads, palReads, encoded>>

\* Line 70: the arm of `match info.color_type`.
MatchArm(ct) ==
    CASE ct = "Rgb" -> "rgb_loop"
      [] ct = "Grayscale" -> "gray_loop"
      [] ct = "GrayscaleAlpha" -> "gray_alpha_loop"
      [] ct = "Indexed" -> "palette"
      [] ct = "Rgba" -> "return"

\* Lines 70, 73, 83, 95, 109: dispatch, and the arm's Vec::with_capacity.
PngMatch ==
    /\ At_("decode_png", "match")
    /\ pc' = MatchArm(Unwrap(info).color_type)
    /\ rgba_bytes' = <<>>
    /\ i' = 0
    /\ UNCHANGED <<file, image, op, info, bytes, result, rawReads, palReads, encoded>>

\* Lines 74-79.
PngRgbLoop ==
    /\ At_("decode_png", "rgb_loop")
    /\ LoopStep(RgbReads(i), RgbPixel(bytes, i))
    /\ UNCHANGED <<file, image, op, info, palReads, encoded>>

\* Lines 84-91.
PngGrayLoop ==
    /\ At_("decode_png", "gray_loop")
    /\ LoopStep(GrayReads(i), GrayPixel(bytes, i))
    /\ UNCHANGED <<file, image, op, info, palReads, encoded>>

\* Lines 96-105.
PngGrayAlphaLoop ==
    /\ At_("decode_png", "gray_alpha_loop")
    /\ LoopStep(GrayAlphaReads(i), GrayAlphaPixel(bytes, i))
    /\ UNCHANGED <<file, image, op, info, palReads, encoded>>

\* Lines 110-115: info.palette.as_ref().ok_or_else(..)?
PngPalette ==
    /\ At_("decode_png", "palette")
    /\ IF Unwrap(info).palette = None
       THEN Return(MissingPaletteErr)
       ELSE pc' = "indexed_loop" /\ UNCHANGED result
    /\ UNCHANGED <<file, image, op, info, bytes, rgba_bytes, i, rawReads, palReads, encoded>>

\* Lines 117-129.
PngIndexedLoop ==
    /\ At_("decode_png", "indexed_loop")
    /\ LET palette == Unwrap(Unwrap(info).palette)
           hit == /\ i < PixelCount(Unwrap(info))
                  /\ InBounds(bytes, i)
                  /\ PaletteHit(PaletteOffset(bytes, i), palette)
           reads == IF hit THEN PaletteReads(PaletteOffset(bytes, i)) ELSE {}
       IN  IF \A k \in reads : InBounds(palette, k)
           THEN /\ LoopStep(GrayReads(i), IndexedPixel(bytes, palette, i))
                /\ palReads' = IF i < PixelCount(Unwrap(info)) THEN reads ELSE palReads
           ELSE /\ Return(Panic)
                /\ rawReads' = GrayReads(i)
                /\ palReads' = reads
                /\ UNCHANGED <<bytes, rgba_bytes, i>>
    /\ UNCHANGED <<file, image, op, info, encoded>>

\* Lines 136-140.
PngReturn ==
    /\ At_("decode_png", "return")
    /\ Return(Ok([width |-> Unwrap(info).width,
                  height |-> Unwrap(info).height,
                  bytes |-> bytes]))
    /\ UNCHANGED <<file, image, op, info, bytes, rgba_bytes, i, rawReads, palReads, encoded>>

----------------------------------------------------------------------------
(* decode_gif, lines 18-43 *)

\* A variant of FrameFound that takes every stream to have a frame.
FrameFoundAlways(f) == TRUE

\* Line 29: `if let Some(_) = reader.next_frame_info()?`.
FrameFound(f) == f.has_frame

CallDecodeGif ==
    /\ file /= None
    /\ Enter("decode_gif", "read_info")
    /\ UNCHANGED <<file, image, encoded>>

\* Lines 19-25: the decoder is set to ColorOutput::RGBA; read_info()?.
GifReadInfo ==
    /\ At_("decode_gif", "read_info")
    /\ LET f == Unwrap(file)
       IN  IF f.format = "gif" /\ f.stage /= "empty"
           THEN pc' = "next_frame_info" /\ UNCHANGED result
           ELSE Return(LibErr("gif::DecodingError"))
    /\ UNCHANGED <<file, image, op, info, bytes, rgba_bytes, i, rawReads, palReads, encoded>>

\* Lines 29-30 and 37-42: next_frame_info()?; Some(_) allocates
\* vec![0; reader.buffer_size()], None is the Decode error.
GifNextFrameInfo ==
    /\ At_("decode_gif", "next_frame_info")
    /\ LET f == Unwrap(file)
       IN  IF FrameFound(f)
           THEN /\ bytes' = Zeros(GifBufferSize(f))
                /\ pc' = "read_into_buffer"
                /\ UNCHANGED result
           ELSE /\ Return(DecodeErr("Gif", "Error getting frame info"))
                /\ UNCHANGED bytes
    /\ UNCHANGED <<file, image, op, info, rgba_bytes, i, rawReads, palReads, encoded>>

\* Line 31: read_into_buffer(&mut bytes)?.
GifReadIntoBuffer ==
    /\ At_("decode_gif", "read_into_buffer")
    /\ LET f == Unwrap(file)
       IN  IF f.stage = "full"
           THEN /\ bytes' = f.data
                /\ pc' = "return"
                /\ UNCHANGED result
           ELSE /\ Return(LibErr("gif::DecodingError"))
                /\ UNCHANGED bytes
    /\ UNCHANGED <<file, image, op, info, rgba_bytes, i, rawReads, palReads, encoded>>

\* Lines 32-36: width and height are the reader's (the logical screen's).
GifImage(f, b) == [width |-> f.width, height |-> f.height, bytes |-> b]

GifReturn ==
    /\ At_("decode_gif", "return")
    /\ Return(Ok(GifImage(Unwrap(file), bytes)))
    /\ UNCHANGED <<file, image, op, info, bytes, rgba_bytes, i, rawReads, palReads, encoded>>

----------------------------------------------------------------------------
(* encode_png, lines 144-156 *)

\* Line 150: encoder.set_color(png::ColorType::Rgba).
EncodedColorType == "Rgba"

\* Line 151: encoder.set_depth(png::BitDepth::Eight).
EncodedBitDepth == 8

\* A variant of EncodedHeader with width and height exchanged.
EncodedHeaderSwapped(img) ==
    [format |-> "png", width |-> img.height, height |-> img.width,
     color_type |-> EncodedColorType, bit_depth |-> EncodedBitDepth,
     palette |-> None, stage |-> "empty", has_frame |-> TRUE,
     frame_width |-> img.height, frame_height |-> img.width,
     data |-> <<>>]

\* Lines 149-151: the header the encoder is configured with.
EncodedHeader(img) ==
    [format |-> "png", width |-> img.width, height |-> img.height,
     color_type |-> EncodedColorType, bit_depth |-> EncodedBitDepth,
     palette |-> None, stage |-> "empty", has_frame |-> TRUE,
     frame_width |-> img.width, frame_height |-> img.height,
     data |-> <<>>]

\* Line 154: the pixel data handed to write_image_data.
EncodedData(img) == img.bytes

CallEncodePng ==
    /\ image /= None
    /\ Enter("encode_png", "create")
    /\ UNCHANGED <<file, image, encoded>>

\* Lines 146-147: File::create(path)? truncates the file; it may fail.
EncCreate ==
    /\ At_("encode_png", "create")
    /\ \E ok \in BOOLEAN :
         IF ok
         THEN /\ file' = Some(EncodedHeader(Unwrap(image)))
              /\ encoded' = None
              /\ pc' = "write_header"
              /\ UNCHANGED result
         ELSE /\ Return(LibErr("io::Error"))
              /\ UNCHANGED <<file, encoded>>
    /\ UNCHANGED <<image, op, info, bytes, rgba_bytes, i, rawReads, palReads>>

\* Lines 149-153: encoder.write_header()?.
EncWriteHeader ==
    /\ At_("encode_png", "write_header")
    /\ \E ok \in BOOLEAN :
         IF ok
         THEN /\ file' = Some([Unwrap(file) EXCEPT !.stage = "header"])
              /\ pc' = "write_image_data"
              /\ UNCHANGED result
         ELSE /\ Return(LibErr("png::EncodingError"))
              /\ UNCHANGED file
    /\ UNCHANGED <<image, op, info, bytes, rgba_bytes, i, rawReads, palReads, encoded>>

\* Lines 154-155: writer.write_image_data(&image.bytes)?; Ok(()).  The
\* encoder refuses data that is not exactly the size its header announces.
EncWriteImageData ==
    /\ At_("encode_png", "write_image_data")
    /\ \E ok \in BOOLEAN :
         IF ok /\ Len(EncodedData(Unwrap(image))) = OutputBufferSize(Unwrap(file))
         THEN /\ file' = Some([Unwrap(file) EXCEPT !.stage = "full",
                                                   !.data = EncodedData(Unwrap(image))])
              /\ encoded' = image
              /\ Return(OkUnit)
         ELSE /\ Return(LibErr("png::EncodingError"))
              /\ UNCHANGED <<file, encoded>>
    /\ UNCHANGED <<image, op, info, bytes, rgba_bytes, i, rawReads, palReads>>

----------------------------------------------------------------------------

Next ==
    \/ CallDecodePng
    \/ PngReadInfo
    \/ PngNextFrame
    \/ PngMatch
    \/ PngRgbLoop
    \/ PngGrayLoop
    \/ PngGrayAlphaLoop
    \/ PngPalette
    \/ PngIndexedLoop
    \/ PngReturn
    \/ CallDecodeGif
    \/ GifReadInfo
    \/ GifNextFrameInfo
    \/ GifReadIntoBuffer
    \/ GifReturn
    \/ CallEncodePng
    \/ EncCreate
    \/ EncWriteHeader
    \/ EncWriteImageData

Spec == Init /\ [][Next]_vars

----------------------------------------------------------------------------
(* Properties *)

\* The scanline data the decoder delivered for the file being decoded.
Raw == Unwrap(file).data

\* The Image a call returned.
Returned == Unwrap(result.image)

\* Pixel k (0-based) of an RGBA buffer.
Pixel(out, k) == SubSeq(out, 4 * k + 1, 4 * k + 4)

\* decode_png has finished on a frame of colour type ct.
PngDone(ct) ==
    /\ op = "decode_png"
    /\ pc = "done"
    /\ info /= None
    /\ Unwrap(info).color_type = ct

Count == PixelCount(Unwrap(info))

\* C1: every Image a decode returns has bytes.len() = width * height * 4.
C1_DecodedLength ==
    (op \in {"decode_png", "decode_gif"} /\ pc = "done" /\ result.tag = "Ok")
        => Len(Returned.bytes) = Returned.width * Returned.height * 4

\* C2: an Image written by encode_png and read back by decode_png comes
\* back with the same width, height and bytes.
C2_RoundTrip ==
    (op = "decode_png" /\ pc = "done" /\ result.tag = "Ok" /\ encoded /= None)
        => /\ Returned.width = Unwrap(encoded).width
           /\ Returned.height = Unwrap(encoded).height
           /\ Returned.bytes = Unwrap(encoded).bytes

C2_Witness ==
    /\ op = "decode_png" /\ pc = "done" /\ result.tag = "Ok" /\ encoded /= None
    /\ Returned.width = 1 /\ Returned.height = 2
    /\ Returned.bytes[1] /= Returned.bytes[2]

\* C3: an Indexed frame without a palette ends decode_png with the Decode
\* error tagged Png about the missing palette, and no Image.
C3_MissingPalette ==
    (PngDone("Indexed") /\ Unwrap(info).palette = None)
        => /\ result = DecodeErr("Png", "Missing palette for indexed image")
           /\ result.image = None

C3_Witness ==
    /\ PngDone("Indexed") /\ Unwrap(info).palette = None
    /\ Count = 2 /\ Len(Raw) = 2
    /\ result.tag = "Err"

\* C4: with a palette present and a byte per pixel in the buffer, decode_png
\* returns an Image in which every pixel whose palette offset plus 2 is
\* outside the palette is [0, 0, 0, 255].
C4_OutOfRangeBlack ==
    (PngDone("Indexed") /\ Unwrap(info).palette /= None /\ Len(Raw) >= Count)
        => /\ result.tag = "Ok"
           /\ Len(Returned.bytes) = Count * 4
           /\ \A k \in 0..(Count - 1) :
                At(Raw, k) * 3 + 2 >= Len(Unwrap(Unwrap(info).palette))
                    => Pixel(Returned.bytes, k) = <<0, 0, 0, 255>>

\* An image with an out-of-range index next to an in-range one.
C4_Witness ==
    /\ PngDone("Indexed") /\ Unwrap(info).palette /= None /\ result.tag = "Ok"
    /\ Count >= 2
    /\ Len(Unwrap(Unwrap(info).palette)) = 4
    /\ At(Raw, 0) = 1 /\ At(Raw, 1) = 0
    /\ Pixel(Returned.bytes, 0) = <<0, 0, 0, 255>>
    /\ Pixel(Returned.bytes, 1) /= <<0, 0, 0, 255>>

\* C5: a GIF stream with a readable header and no frame ends decode_gif with
\* the Decode error tagged Gif, and no Image.
C5_NoFrame ==
    (/\ op = "decode_gif" /\ pc = "done"
     /\ Unwrap(file).format = "gif" /\ Unwrap(file).stage /= "empty"
     /\ ~Unwrap(file).has_frame)
        => /\ result = DecodeErr("Gif", "Error getting frame info")
           /\ result.image = None

C5_Witness ==
    /\ op = "decode_gif" /\ pc = "done"
    /\ Unwrap(file).format = "gif" /\ ~Unwrap(file).has_frame
    /\ Unwrap(file).width = 2
    /\ result.tag = "Err"

\* C6: an Rgb buffer of at least count * 3 bytes is returned as count * 4
\* bytes, pixel k being raw[3k], raw[3k+1], raw[3k+2], 255.
C6_Rgb ==
    (PngDone("Rgb") /\ Len(Raw) >= Count * 3)
        => /\ result.tag = "Ok"
           /\ Len(Returned.bytes) = Count * 4
           /\ \A k \in 0..(Count - 1) :
                Pixel(Returned.bytes, k) =
                    <<At(Raw, 3 * k), At(Raw, 3 * k + 1), At(Raw, 3 * k + 2), 255>>

C6_Witness ==
    /\ PngDone("Rgb") /\ result.tag = "Ok"
    /\ Count >= 2
    /\ At(Raw, 0) /= At(Raw, 2)
    /\ Pixel(Returned.bytes, 0) /= Pixel(Returned.bytes, 1)

\* C7: with a palette present, every returned pixel whose index i has
\* i * 3 + 2 inside the palette is palette[3i], palette[3i+1],
\* palette[3i+2], 255.
C7_IndexedLookup ==
    (PngDone("Indexed") /\ Unwrap(info).palette /= None /\ result.tag = "Ok")
        => LET palette == Unwrap(Unwrap(info).palette)
           IN  \A k \in 0..(Count - 1) :
                 At(Raw, k) * 3 + 2 < Len(palette)
                     => Pixel(Returned.bytes, k) =
                            <<At(palette, At(Raw, k) * 3),
                              At(palette, At(Raw, k) * 3 + 1),
                              At(palette, At(Raw, k) * 3 + 2), 255>>

\* Index 1 looked up in a palette of two entries.
C7_Witness ==
    /\ PngDone("Indexed") /\ Unwrap(info).palette /= None /\ result.tag = "Ok"
    /\ Count >= 1
    /\ Len(Unwrap(Unwrap(info).palette)) = 6
    /\ At(Raw, 0) = 1
    /\ Pixel(Returned.bytes, 0) = <<14, 15, 16, 255>>

\* C8: every returned pixel k of a GrayscaleAlpha buffer is raw[2k] three
\* times followed by raw[2k+1] unchanged.
C8_GrayAlpha ==
    (PngDone("GrayscaleAlpha") /\ Len(Raw) >= Count * 2)
        => /\ result.tag = "Ok"
           /\ Len(Returned.bytes) = Count * 4
           /\ \A k \in 0..(Count - 1) :
                Pixel(Returned.bytes, k) =
                    <<At(Raw, 2 * k), At(Raw, 2 * k), At(Raw, 2 * k), At(Raw, 2 * k + 1)>>

\* A pixel whose alpha is neither 255 nor its intensity.
C8_Witness ==
    /\ PngDone("GrayscaleAlpha") /\ result.tag = "Ok"
    /\ Count >= 1
    /\ Pixel(Returned.bytes, 0) = <<1, 1, 1, 0>>

\* C9: every returned pixel k of a Grayscale buffer with a byte per pixel
\* is raw[k] three times followed by 255.
C9_Gray ==
    (PngDone("Grayscale") /\ Len(Raw) >= Count)
        => /\ result.tag = "Ok"
           /\ Len(Returned.bytes) = Count * 4
           /\ \A k \in 0..(Count - 1) :
                Pixel(Returned.bytes, k) = <<At(Raw, k), At(Raw, k), At(Raw, k), 255>>

C9_Witness ==
    /\ PngDone("Grayscale") /\ result.tag = "Ok"
    /\ Count >= 2
    /\ Pixel(Returned.bytes, 0) = <<0, 0, 0, 255>>
    /\ Pixel(Returned.bytes, 1) = <<1, 1, 1, 255>>

\* Bytes per pixel each conversion arm takes from the buffer.
Channels(ct) ==
    CASE ct = "Rgb" -> 3
      [] ct = "Grayscale" -> 1
      [] ct = "GrayscaleAlpha" -> 2
      [] ct = "Indexed" -> 1
      [] ct = "Rgba" -> 0

\* C10: when the buffer holds at least count * channels bytes, no iteration
\* of a conversion loop indexes the buffer at or beyond count * channels or
\* the palette at or beyond its length, and decode_png does not panic.
C10_NoOutOfBounds ==
    (/\ op = "decode_png" /\ info /= None
     /\ Len(Unwrap(file).data) >= Count * Channels(Unwrap(info).color_type))
        => /\ result.tag /= "Panic"
           /\ \A k \in rawReads :
                k >= 0 /\ k < Count * Channels(Unwrap(info).color_type)
           /\ \A k \in palReads :
                /\ Unwrap(info).palette /= None
                /\ k >= 0 /\ k < Len(Unwrap(Unwrap(info).palette))

\* A palette whose length is not a multiple of 3: the index whose entry is
\* cut short was substituted, and the last pixel read a whole entry.
C10_Witness ==
    /\ PngDone("Indexed") /\ result.tag = "Ok"
    /\ Count >= 2
    /\ Len(Raw) >= Count
    /\ Len(Unwrap(Unwrap(info).palette)) = 5
    /\ palReads = {0, 1, 2}
    /\ rawReads = {Count - 1}
    /\ At(Raw, 0) = 1
    /\ Pixel(Returned.bytes, 0) = <<0, 0, 0, 255>>

====
